---- MODULE Spec2Model ----
(***************************************************************************)
(* Model of load_problems.py: the two sanitizers (sanitize_text,           *)
(* sanitize_answer), the remote fetch (fetch_questions_openai) and the     *)
(* orchestration loop (generate_questions).                                *)
(*                                                                         *)
(* A Python str is a sequence of one-character strings.  A Python value    *)
(* that may be None, a str, a float or a raised exception is a record      *)
(* with a field py naming which one it is.                                 *)
(***************************************************************************)
EXTENDS Integers, Sequences, FiniteSets, TLC

VARIABLES
    s_in, s_out, t_pc,              \* sanitize_text: argument, result, position
    a_in, a_out, a_pc,              \* sanitize_answer: argument, result, position
    USE_OPENAI,                     \* line 8
    pc,                             \* position in generate_questions
    op_i,                           \* index of the operation of the outer loop
    n,                              \* iterations done of `for _ in range(per_op)`
    all_questions,                  \* line 99
    skipped,                        \* line 108
    content,                        \* line 49, the reply of the last request;
                                    \* in Local mode the result of func(), line 112
    qs,                             \* line 104
    calls,                          \* history: number of func() calls per operation
    batches                         \* history: items produced per operation

vars == <<s_in, s_out, t_pc, a_in, a_out, a_pc, USE_OPENAI, pc, op_i, n,
          all_questions, skipped, content, qs, calls, batches>>

textVars == <<s_in, s_out, t_pc>>
ansVars  == <<a_in, a_out, a_pc>>
genVars  == <<USE_OPENAI, pc, op_i, n, all_questions, skipped, content, qs,
              calls, batches>>

(***************************************************************************)
(* Bounds of the model.                                                    *)
(***************************************************************************)
MaxTextLen == 4        \* longest enumerated raw text
MaxAnsLen  == 4        \* longest enumerated raw answer
PerOp      == 2        \* the argument per_op of generate_questions

(***************************************************************************)
(* Python values.                                                          *)
(***************************************************************************)
PyNone == [py |-> "None"]
PyStr(s) == [py |-> "str", s |-> s]
PyRaise(e) == [py |-> "raise", exc |-> e]

(***************************************************************************)
(* Characters.  BigZeros stands for the 400-character digit run '0'*400,   *)
(* carried as one symbol so that integers beyond the range of a float are  *)
(* among the enumerated inputs.  The three non-ASCII characters of the     *)
(* source are written by their code points.                                *)
(***************************************************************************)
BigZeros == "0^400"
UMinus == "U+2212"     \* the minus sign of line 85
Times == "U+00D7"      \* the multiplication sign of lines 74, 76, 79
Divide == "U+00F7"     \* the division sign of lines 75, 79
Digits == {"0", "1", "2", "3", "4", "5", "6", "7", "8", "9", BigZeros}
Whitespace == {" ", "\t"}
IsDigit(c) == c \in Digits
IsSpace(c) == c \in Whitespace

(***************************************************************************)
(* str methods.                                                            *)
(***************************************************************************)
RECURSIVE lstrip_chars(_, _)
lstrip_chars(s, cs) ==
    IF s # <<>> /\ Head(s) \in cs THEN lstrip_chars(Tail(s), cs) ELSE s

RECURSIVE rstrip_chars(_, _)
rstrip_chars(s, cs) ==
    IF s # <<>> /\ s[Len(s)] \in cs
    THEN rstrip_chars(SubSeq(s, 1, Len(s) - 1), cs)
    ELSE s

rstrip(s) == rstrip_chars(s, Whitespace)
strip(s) == lstrip_chars(rstrip(s), Whitespace)

StartsWith(s, pat) ==
    /\ Len(pat) <= Len(s)
    /\ SubSeq(s, 1, Len(pat)) = pat

\* s.replace(old, new) for a non-empty old: leftmost, non-overlapping.
RECURSIVE replace(_, _, _)
replace(s, old, new) ==
    IF s = <<>> THEN <<>>
    ELSE IF StartsWith(s, old)
         THEN new \o replace(SubSeq(s, Len(old) + 1, Len(s)), old, new)
         ELSE <<Head(s)>> \o replace(Tail(s), old, new)

(***************************************************************************)
(* Regular expressions of sanitize_text.                                   *)
(***************************************************************************)
\* Length of the longest prefix of s whose characters satisfy the test.
RECURSIVE DigitRun(_)
DigitRun(s) == IF s # <<>> /\ IsDigit(Head(s)) THEN 1 + DigitRun(Tail(s)) ELSE 0

RECURSIVE NonSpaceRun(_)
NonSpaceRun(s) ==
    IF s # <<>> /\ ~IsSpace(Head(s)) THEN 1 + NonSpaceRun(Tail(s)) ELSE 0

\* Length of the match of -?\d+ at the start of s, 0 when there is none.
IntMatch(s) ==
    LET sign == IF s # <<>> /\ Head(s) = "-" THEN 1 ELSE 0
        d == DigitRun(SubSeq(s, sign + 1, Len(s)))
    IN  IF d = 0 THEN 0 ELSE sign + d

\* The match of \\frac\{(-?\d+)\}\{(-?\d+)\} at the start of s.
FracMatch(s) ==
    LET pre == <<"\\", "f", "r", "a", "c", "{">>
        r1 == SubSeq(s, Len(pre) + 1, Len(s))
        k1 == IntMatch(r1)
        r2 == SubSeq(r1, k1 + 1, Len(r1))
        r3 == SubSeq(r2, 3, Len(r2))
        k2 == IntMatch(r3)
        r4 == SubSeq(r3, k2 + 1, Len(r3))
        ok == /\ StartsWith(s, pre)
              /\ k1 > 0
              /\ StartsWith(r2, <<"}", "{">>)
              /\ k2 > 0
              /\ StartsWith(r4, <<"}">>)
    IN  IF ok
        THEN [ok |-> TRUE, len |-> Len(pre) + k1 + 2 + k2 + 1,
              g1 |-> SubSeq(r1, 1, k1), g2 |-> SubSeq(r3, 1, k2)]
        ELSE [ok |-> FALSE, len |-> 0, g1 |-> <<>>, g2 |-> <<>>]

\* re.sub(r'\\frac\{(-?\d+)\}\{(-?\d+)\}', r'\1/\2', s)
RECURSIVE sub_frac(_)
sub_frac(s) ==
    IF s = <<>> THEN <<>>
    ELSE LET m == FracMatch(s)
         IN  IF m.ok
             THEN m.g1 \o <<"/">> \o m.g2 \o sub_frac(SubSeq(s, m.len + 1, Len(s)))
             ELSE <<Head(s)>> \o sub_frac(Tail(s))

\* re.sub(r'\\[^\s]*', '', s)
RECURSIVE sub_escape(_)
sub_escape(s) ==
    IF s = <<>> THEN <<>>
    ELSE IF Head(s) = "\\"
         THEN LET k == 1 + NonSpaceRun(Tail(s))
              IN  sub_escape(SubSeq(s, k + 1, Len(s)))
         ELSE <<Head(s)>> \o sub_escape(Tail(s))

\* re.sub(r'\s+', ' ', s)
RECURSIVE sub_spaces(_)
sub_spaces(s) ==
    IF s = <<>> THEN <<>>
    ELSE IF IsSpace(Head(s))
         THEN <<" ">> \o sub_spaces(lstrip_chars(s, Whitespace))
         ELSE <<Head(s)>> \o sub_spaces(Tail(s))

(***************************************************************************)
(* sanitize_text, line by line.                                            *)
(***************************************************************************)
\* lines 71-77
text_markup(s0) ==
    LET s1 == strip(s0)
        s2 == replace(s1, <<"$">>, <<>>)
        s3 == sub_frac(s2)
        s4 == replace(replace(s3, <<"\\", "t", "i", "m", "e", "s">>, <<Times>>),
                      <<"\\", "\\", "t", "i", "m", "e", "s">>, <<Times>>)
        s5 == replace(replace(s4, <<"\\", "d", "i", "v">>, <<Divide>>),
                      <<"\\", "\\", "d", "i", "v">>, <<Divide>>)
        s6 == replace(s5, <<"\\", "c", "d", "o", "t">>, <<Times>>)
    IN  sub_escape(s6)

\* Variant of line 78 that removes one '=' only.
text_equals_single(s) ==
    LET t == rstrip(s)
    IN  strip(IF t # <<>> /\ t[Len(t)] = "=" THEN SubSeq(t, 1, Len(t) - 1) ELSE t)

\* line 78: s.rstrip().rstrip('=').strip()
text_equals(s) == strip(rstrip_chars(rstrip(s), {"="}))

\* Variant of line 79 that leaves '-' as it is.
text_operators_no_minus(s) ==
    replace(replace(replace(s, <<"+">>, <<" ", "+", " ">>),
                    <<Times>>, <<" ", Times, " ">>),
            <<Divide>>, <<" ", Divide, " ">>)

\* line 79
text_operators(s) ==
    replace(replace(replace(replace(s, <<"+">>, <<" ", "+", " ">>),
                            <<"-">>, <<" ", "-", " ">>),
                    <<Times>>, <<" ", Times, " ">>),
            <<Divide>>, <<" ", Divide, " ">>)

\* Variant of line 80 without the re.sub.
text_collapse_strip_only(s) == strip(s)

\* line 80
text_collapse(s) == strip(sub_spaces(s))

\* sanitize_text(s): the argument is PyNone or PyStr(_), the result a str.
sanitize_text(x) ==
    IF x = PyNone THEN <<>>
    ELSE text_collapse(text_operators(text_equals(text_markup(x.s))))

(***************************************************************************)
(* Python int and float.  An int is a sign and a magnitude; a magnitude is *)
(* the sequence of its coefficients in base 10^400, least significant      *)
(* first, so that BigZeros multiplies by the base.  The coefficients stay  *)
(* far below the base: the strings enumerated have a handful of digits.    *)
(* A float is the exact ratio num/den it was computed from (rounding is    *)
(* not modelled), or an infinity, written with den = <<0>>.                *)
(***************************************************************************)
DigitVal(c) ==
    CASE c = "0" -> 0 [] c = "1" -> 1 [] c = "2" -> 2 [] c = "3" -> 3
      [] c = "4" -> 4 [] c = "5" -> 5 [] c = "6" -> 6 [] c = "7" -> 7
      [] c = "8" -> 8 [] c = "9" -> 9

MagIsZero(m) == \A i \in 1..Len(m) : m[i] = 0

\* Index of the highest non-zero coefficient, 0 for zero.
RECURSIVE MagDegree(_)
MagDegree(m) ==
    IF m = <<>> THEN 0
    ELSE IF m[Len(m)] # 0 THEN Len(m)
         ELSE MagDegree(SubSeq(m, 1, Len(m) - 1))

\* The magnitude m followed by one more decimal character c.
MagAppend(m, c) ==
    IF c = BigZeros THEN <<0>> \o m
    ELSE [i \in 1..Len(m) |-> IF i = 1 THEN m[i] * 10 + DigitVal(c) ELSE m[i] * 10]

\* The magnitude written by the digit string ds, read left to right.
RECURSIVE MagOf(_, _)
MagOf(acc, ds) ==
    IF ds = <<>> THEN acc ELSE MagOf(MagAppend(acc, Head(ds)), Tail(ds))

PyInt(neg, mag) == [py |-> "int", neg |-> neg /\ ~MagIsZero(mag), mag |-> mag]

\* int(s) for s matching -?\d+
int(s) ==
    IF Head(s) = "-" THEN PyInt(TRUE, MagOf(<<0>>, Tail(s)))
    ELSE PyInt(FALSE, MagOf(<<0>>, s))

PyFloat(neg, num, den) == [py |-> "float", neg |-> neg, num |-> num, den |-> den]
PyInf(neg) == PyFloat(neg, <<1>>, <<0>>)

\* num/den lies beyond the largest float (about 1.8 * 10^308): with
\* coefficients of a few digits this is so exactly when num has the higher
\* degree in base 10^400.
BeyondFloat(num, den) == MagDegree(num) > MagDegree(den)

\* a / b for two ints (true division, line 92)
truediv(a, b) ==
    IF MagIsZero(b.mag) THEN PyRaise("ZeroDivisionError")
    ELSE IF BeyondFloat(a.mag, b.mag) THEN PyRaise("OverflowError")
    ELSE PyFloat(a.neg # b.neg, a.mag, b.mag)

\* float(s) for s matching [-+]?\d+(\.\d+)? : out of range is inf, no exception
float(s) ==
    LET neg == Head(s) = "-"
        body == IF Head(s) \in {"-", "+"} THEN Tail(s) ELSE s
        k == DigitRun(body)
        frac == SubSeq(body, k + 2, Len(body))
        num == MagOf(MagOf(<<0>>, SubSeq(body, 1, k)), frac)
        den == MagOf(<<1>>, [i \in 1..Len(frac) |->
                                IF frac[i] = BigZeros THEN BigZeros ELSE "0"])
    IN  IF BeyondFloat(num, den) THEN PyInf(neg) ELSE PyFloat(neg, num, den)

(***************************************************************************)
(* Regular expressions of sanitize_answer.                                 *)
(***************************************************************************)
\* re.fullmatch(r'[-+]?\d+(\.\d+)?', s)
PlainMatch(s) ==
    LET sign == IF s # <<>> /\ Head(s) \in {"-", "+"} THEN 1 ELSE 0
        r1 == SubSeq(s, sign + 1, Len(s))
        k1 == DigitRun(r1)
        r2 == SubSeq(r1, k1 + 1, Len(r1))
        k2 == DigitRun(Tail(r2))
    IN  /\ k1 > 0
        /\ \/ r2 = <<>>
           \/ /\ Head(r2) = "."
              /\ k2 > 0
              /\ k2 = Len(r2) - 1

\* re.fullmatch(r'(-?\d+)\s*/\s*(\d+)', s)
FractionMatch(s) ==
    LET k1 == IntMatch(s)
        r1 == lstrip_chars(SubSeq(s, k1 + 1, Len(s)), Whitespace)
        r2 == lstrip_chars(Tail(r1), Whitespace)
        k2 == DigitRun(r2)
        ok == /\ k1 > 0
              /\ r1 # <<>>
              /\ Head(r1) = "/"
              /\ k2 > 0
              /\ k2 = Len(r2)
    IN  IF ok THEN [ok |-> TRUE, g1 |-> SubSeq(s, 1, k1), g2 |-> r2]
        ELSE [ok |-> FALSE, g1 |-> <<>>, g2 |-> <<>>]

\* lines 91-92
fraction_value(num, den) ==
    IF MagIsZero(den.mag) THEN PyNone ELSE truediv(num, den)

\* sanitize_answer(a): the argument is PyNone or PyStr(_) (str(a) of line 85
\* is the text of the argument); the result is PyNone, a float or a raise.
sanitize_answer(a) ==
    IF a = PyNone THEN PyNone
    ELSE LET s == replace(replace(replace(strip(a.s), <<"$">>, <<>>),
                                  <<"\\", ",">>, <<>>),
                          <<UMinus>>, <<"-">>)
             s_plain == replace(s, <<",">>, <<>>)
             m == FractionMatch(s)
         IN  IF PlainMatch(s_plain) THEN float(s_plain)
             ELSE IF m.ok THEN fraction_value(int(m.g1), int(m.g2))
             ELSE PyNone

(***************************************************************************)
(* The sanitizers as programs of one call each: the argument is drawn      *)
(* from the enumerated raw values, the call stores its result.             *)
(***************************************************************************)
Strings(chars, maxlen) == UNION {[1..k -> chars] : k \in 0..maxlen}

TextChars == {"1", "+", "-", Times, Divide, "=", " ", "\t", "\\"}

\* Raw texts with markup, longer than the enumerated ones.
MarkupTexts == {
    <<"\\", "f", "r", "a", "c", "{", "1", "}", "{", "2", "}", " ",
      "\\", "t", "i", "m", "e", "s", " ", "4", " ", "=">>,
    <<"$", "\\", "f", "r", "a", "c", "{", "-", "1", "}", "{", "2", "}", "+",
      "3", "\\", "d", "i", "v", "4", "=", "$">>,
    <<"2", "\\", "c", "d", "o", "t", "3", "=", "=", " ">>,
    <<"\\", "\\", "t", "i", "m", "e", "s", " ", "5", "\\", "q", "=", "\t">>,
    <<"\\", "f", "r", "a", "c", "{", "1", "}", "{", "x", "}", " ", "-", "a">> }

RawTexts ==
    {PyNone} \cup {PyStr(s) : s \in Strings(TextChars, MaxTextLen) \cup MarkupTexts}

AnswerChars == {"0", "1", "3", BigZeros, "-", "/", " ", ",", ".", "$"}

\* Raw answers with characters outside AnswerChars.
MarkedAnswers == {
    <<"$", "3", ",", "4", "0", "0">>,
    <<UMinus, "5">>,
    <<UMinus, "3", " ", "/", "\t", "4">>,
    <<"+", "7">>,
    <<"+", "3", "/", "4">>,
    <<"1", "\\", ",", "0", "0", "0">>,
    <<"3", "/", "-", "4">>,
    <<"x">> }

RawAnswers ==
    {PyNone} \cup {PyStr(s) : s \in Strings(AnswerChars, MaxAnsLen) \cup MarkedAnswers}

TextIdle == s_in = PyNone /\ s_out = <<>> /\ t_pc = "idle"
AnsIdle == a_in = PyNone /\ a_out = PyNone /\ a_pc = "idle"
GenIdle ==
    /\ USE_OPENAI = FALSE
    /\ pc = "idle"
    /\ op_i = 1
    /\ n = 0
    /\ all_questions = <<>>
    /\ skipped = 0
    /\ content = PyNone
    /\ qs = PyNone
    /\ calls = <<>>
    /\ batches = <<>>

InitText ==
    /\ s_in \in RawTexts
    /\ s_out = <<>>
    /\ t_pc = "call"
    /\ AnsIdle
    /\ GenIdle

SanitizeText ==
    /\ t_pc = "call"
    /\ s_out' = sanitize_text(s_in)
    /\ t_pc' = "done"
    /\ UNCHANGED <<s_in, ansVars, genVars>>

NextText == SanitizeText

SpecText == InitText /\ [][NextText]_vars

InitAnswer ==
    /\ a_in \in RawAnswers
    /\ a_out = PyNone
    /\ a_pc = "call"
    /\ TextIdle
    /\ GenIdle

SanitizeAnswer ==
    /\ a_pc = "call"
    /\ a_out' = sanitize_answer(a_in)
    /\ a_pc' = "done"
    /\ UNCHANGED <<a_in, textVars, genVars>>

NextAnswer == SanitizeAnswer

SpecAnswer == InitAnswer /\ [][NextAnswer]_vars

(***************************************************************************)
(* generate_questions.  Labels, field names and exception names are        *)
(* written as TLA+ strings.                                                *)
(***************************************************************************)
PyList(items) == [py |-> "list", items |-> items]
PyDict(d) == [py |-> "dict", d |-> d]
PyNum(v) == [py |-> "int", neg |-> FALSE, mag |-> <<v>>]

\* line 98
operations == <<"Addition", "Substraction", "Multiplication", "Division">>

\* lines 61-66: the keys of OP_FUNCS in insertion order (the generator behind
\* each key is the environment, see Generated)
OP_FUNCS == <<"Addition", "Substraction", "Multiplication", "Division">>

DigitChar(k) == <<"0", "1", "2", "3", "4", "5", "6", "7", "8", "9">>[k + 1]

(***************************************************************************)
(* Remote mode: the replies of the service to one request, lines 44-49.    *)
(* A reply is JSON text; it is carried as its decoding: valid or not, and  *)
(* the decoded document.                                                   *)
(***************************************************************************)
Document(doc) == [valid |-> TRUE, doc |-> doc]
InvalidJson == [valid |-> FALSE, doc |-> PyNone]
JsonObject(members) == [py |-> "dict", d |-> members]

\* The j-th record of a reply that follows the prompt.
RemoteRecord(op, j) ==
    PyDict([Text |-> <<"q", DigitChar(j)>>, Operation |-> op,
            status |-> "Available", Answer |-> PyNum(j)])

QuestionsValues(op, count) ==
    {PyList([j \in 1..k |-> RemoteRecord(op, j)]) : k \in 0..(count + 1)}
    \cup {PyList(<<PyDict([Text |-> <<"q">>, Operation |-> op,
                           status |-> "Available"])>>),
          PyList(<<PyDict([Text |-> <<"q">>, Operation |-> "Sum",
                           status |-> "Used", Answer |-> PyNone])>>),
          PyList(<<PyStr(<<"q">>), RemoteRecord(op, 1)>>),
          PyNone,
          PyNum(5),
          PyStr(<<"a", "b">>),
          PyDict([Text |-> PyStr(<<"q">>)])}

Replies(op, count) ==
    {InvalidJson,
     Document(PyList(<<>>)),
     Document(PyNum(5)),
     Document(JsonObject(<<>>)),
     Document(JsonObject([Text |-> PyStr(<<"q">>)]))}
    \cup {Document(JsonObject([Questions |-> v])) : v \in QuestionsValues(op, count)}

\* lines 51-57: json.loads raises on invalid text, data.get raises on
\* anything but a dict; both are caught.  Otherwise the value under
\* "Questions", whatever it is, or [] when the key is absent.
parse_questions(c) ==
    IF ~c.valid THEN PyList(<<>>)
    ELSE IF c.doc.py # "dict" THEN PyList(<<>>)
    ELSE IF "Questions" \in DOMAIN c.doc.d THEN c.doc.d.Questions
    ELSE PyList(<<>>)

\* The field names of a dict, in a fixed order (iteration over a dict).
RECURSIVE KeyList(_)
KeyList(keys) ==
    IF keys = {} THEN <<>>
    ELSE LET k == CHOOSE x \in keys : TRUE
         IN  <<PyStr(k)>> \o KeyList(keys \ {k})

\* The items list.extend(v) appends: the elements of a list, the characters
\* of a str, the keys of a dict; any other v is not iterable (TypeError).
Iterable(v) == v.py \in {"list", "str", "dict"}
IterItems(v) ==
    CASE v.py = "list" -> v.items
      [] v.py = "str" -> [i \in 1..Len(v.s) |-> PyStr(<<v.s[i]>>)]
      [] v.py = "dict" -> KeyList(DOMAIN v.d)

\* Variant of line 105 that puts the new items in front.
extend_front(aq, v) == IterItems(v) \o aq

\* line 105
extend(aq, v) == aq \o IterItems(v)

(***************************************************************************)
(* Local mode: the results of the k-th call of the generator of op,        *)
(* line 112: a (text, answer) pair in the notation of mathgenerator, or an *)
(* exception.                                                              *)
(***************************************************************************)
OpMarkup(op) ==
    CASE op = "Addition" -> <<"+">>
      [] op = "Substraction" -> <<"-">>
      [] op = "Multiplication" -> <<"\\", "c", "d", "o", "t", " ">>
      [] op = "Division" -> <<"\\", "d", "i", "v", " ">>

ProblemText(op, k) ==
    <<"$", DigitChar(k)>> \o OpMarkup(op) \o <<"2", "=", "$">>

GoodAnswer(op) ==
    IF op = "Division" THEN <<"$", "1", "/", "2", "$">> ELSE <<"$", "4", "$">>

Pair(text, answer) == [py |-> "tuple", text |-> text, answer |-> answer]

Generated(op, k) ==
    {PyRaise("ValueError"),
     Pair(PyStr(ProblemText(op, k)), PyStr(GoodAnswer(op))),
     Pair(PyStr(ProblemText(op, k)), PyStr(<<"$", "1", "/", "0", "$">>)),
     Pair(PyStr(ProblemText(op, k)), PyStr(<<"x", "=", "4">>)),
     Pair(PyStr(ProblemText(op, k)), PyStr(<<"1", BigZeros, "/", "1">>)),
     Pair(PyNone, PyNone)}

\* lines 118-123
Record(txt, op, ans) ==
    PyDict([Text |-> txt, Operation |-> op, status |-> "Available", Answer |-> ans])

\* Variant of lines 115-117 that emits the record of an unparseable answer.
local_item_keeps_null(aq, sk, op, q) ==
    IF q.py = "raise" THEN [all_questions |-> aq, skipped |-> sk + 1]
    ELSE LET txt == sanitize_text(q.text)
             ans == sanitize_answer(q.answer)
         IN  IF ans.py = "raise" THEN [all_questions |-> aq, skipped |-> sk + 1]
             ELSE [all_questions |-> Append(aq, Record(txt, op, ans)),
                   skipped |-> sk]

\* Variant of lines 124-126 that does not count the item of an exception.
local_item_uncounted(aq, sk, op, q) ==
    IF q.py = "raise" THEN [all_questions |-> aq, skipped |-> sk]
    ELSE LET txt == sanitize_text(q.text)
             ans == sanitize_answer(q.answer)
         IN  IF ans.py = "raise" THEN [all_questions |-> aq, skipped |-> sk]
             ELSE IF ans = PyNone THEN [all_questions |-> aq, skipped |-> sk + 1]
             ELSE [all_questions |-> Append(aq, Record(txt, op, ans)),
                   skipped |-> sk]

\* lines 112-126 after the call: the new all_questions and skipped, given
\* the result q of func().  An exception of func() or of a sanitizer lands
\* in the except clause.
local_item(aq, sk, op, q) ==
    IF q.py = "raise" THEN [all_questions |-> aq, skipped |-> sk + 1]
    ELSE LET txt == sanitize_text(q.text)
             ans == sanitize_answer(q.answer)
         IN  IF ans.py = "raise" THEN [all_questions |-> aq, skipped |-> sk + 1]
             ELSE IF ans = PyNone THEN [all_questions |-> aq, skipped |-> sk + 1]
             ELSE [all_questions |-> Append(aq, Record(txt, op, ans)),
                   skipped |-> sk]

(***************************************************************************)
(* The program.  pc: "loop" at the head of an iteration, "fetched" between *)
(* lines 104 and 105, "called" between line 112 and the rest of the        *)
(* iteration, "done" after line 128, "raised" when an exception left       *)
(* generate_questions.                                                     *)
(***************************************************************************)
NoCalls == [op \in {"Addition", "Substraction", "Multiplication", "Division"} |-> 0]
NoBatches == [op \in {"Addition", "Substraction", "Multiplication", "Division"} |-> <<>>]

Init ==
    /\ USE_OPENAI \in BOOLEAN
    /\ pc = "loop"
    /\ op_i = 1
    /\ n = 0
    /\ all_questions = <<>>
    /\ skipped = 0
    /\ content = PyNone
    /\ qs = PyNone
    /\ calls = NoCalls
    /\ batches = NoBatches
    /\ TextIdle
    /\ AnsIdle

\* line 104 with lines 43-57: the request and the parse of its reply.
\* client.chat.completions.create is outside the try: its exception leaves
\* fetch_questions_openai and generate_questions.
RemoteFetch ==
    /\ USE_OPENAI
    /\ pc = "loop"
    /\ \/ /\ pc' = "raised"
          /\ UNCHANGED <<content, qs>>
       \/ \E c \in Replies(operations[op_i], PerOp) :
             /\ content' = c
             /\ qs' = parse_questions(c)
             /\ pc' = "fetched"
    /\ UNCHANGED <<USE_OPENAI, op_i, n, all_questions, skipped, calls, batches>>
    /\ UNCHANGED <<textVars, ansVars>>

\* line 105, then the next operation or line 128
RemoteExtend ==
    /\ USE_OPENAI
    /\ pc = "fetched"
    /\ IF Iterable(qs)
       THEN /\ all_questions' = extend(all_questions, qs)
            /\ batches' = [batches EXCEPT ![operations[op_i]] = @ \o IterItems(qs)]
            /\ op_i' = op_i + 1
            /\ pc' = IF op_i = Len(operations) THEN "done" ELSE "loop"
       ELSE /\ pc' = "raised"
            /\ UNCHANGED <<all_questions, batches, op_i>>
    /\ UNCHANGED <<USE_OPENAI, n, skipped, content, qs, calls>>
    /\ UNCHANGED <<textVars, ansVars>>

\* line 112: the call of the generator; its result is kept in content
LocalCall ==
    /\ ~USE_OPENAI
    /\ pc = "loop"
    /\ \E q \in Generated(OP_FUNCS[op_i], n + 1) : content' = q
    /\ calls' = [calls EXCEPT ![OP_FUNCS[op_i]] = @ + 1]
    /\ pc' = "called"
    /\ UNCHANGED <<USE_OPENAI, op_i, n, all_questions, skipped, qs, batches>>
    /\ UNCHANGED <<textVars, ansVars>>

\* lines 113-126, then the next iteration, the next operation or line 128
LocalItem ==
    /\ ~USE_OPENAI
    /\ pc = "called"
    /\ LET r == local_item(all_questions, skipped, OP_FUNCS[op_i], content)
       IN  /\ all_questions' = r.all_questions
           /\ skipped' = r.skipped
           /\ batches' = [batches EXCEPT ![OP_FUNCS[op_i]] =
                             @ \o SubSeq(r.all_questions, Len(all_questions) + 1,
                                         Len(r.all_questions))]
    /\ IF n + 1 < PerOp
       THEN /\ n' = n + 1
            /\ UNCHANGED op_i
            /\ pc' = "loop"
       ELSE /\ n' = 0
            /\ op_i' = op_i + 1
            /\ pc' = IF op_i = Len(OP_FUNCS) THEN "done" ELSE "loop"
    /\ UNCHANGED <<USE_OPENAI, content, qs, calls>>
    /\ UNCHANGED <<textVars, ansVars>>

Next == RemoteFetch \/ RemoteExtend \/ LocalCall \/ LocalItem

Spec == Init /\ [][Next]_vars

(***************************************************************************)
(* Properties.                                                             *)
(***************************************************************************)
Labels == {"Addition", "Substraction", "Multiplication", "Division"}
OpGlyphs == {"+", "-", Times, Divide}
Items == 1..Len(all_questions)

RECURSIVE SumCalls(_)
SumCalls(ops) ==
    IF ops = {} THEN 0
    ELSE LET op == CHOOSE x \in ops : TRUE IN calls[op] + SumCalls(ops \ {op})

\* C1: in Local mode every record accumulated so far has a numeric (float)
\* Answer; no record carries None.
C1_LocalAnswersNumeric ==
    (pc # "idle" /\ ~USE_OPENAI) =>
        \A i \in Items :
            /\ all_questions[i].py = "dict"
            /\ "Answer" \in DOMAIN all_questions[i].d
            /\ all_questions[i].d.Answer.py = "float"

\* An iteration whose raw answer sanitize_answer maps to None has been
\* processed, after and before emitted records.
C1_Witness ==
    /\ ~USE_OPENAI
    /\ pc = "done"
    /\ content.py = "tuple"
    /\ sanitize_answer(content.answer) = PyNone
    /\ Len(all_questions) > 0
    /\ skipped > 0

\* A request failed: invalid JSON, a top level that is no object, or a
\* Questions value that is no array.
RequestFailed(c) ==
    \/ ~c.valid
    \/ c.doc.py # "dict"
    \/ /\ "Questions" \in DOMAIN c.doc.d
       /\ c.doc.d.Questions.py # "list"

\* C2: in Remote mode no failure of a request is fatal: no exception leaves
\* generate_questions, and a failed request yields the empty list.
C2_Original ==
    (pc # "idle" /\ USE_OPENAI) =>
        /\ pc # "raised"
        /\ (pc = "fetched" /\ RequestFailed(content)) => qs = PyList(<<>>)

\* C3: the output is the concatenation of the four batches in the order
\* Addition, Substraction, Multiplication, Division, each batch in the order
\* of its generation, and a step only ever appends to it.
C3_OperationMajor ==
    /\ [](pc # "idle" =>
            all_questions = batches["Addition"] \o batches["Substraction"]
                            \o batches["Multiplication"] \o batches["Division"])
    /\ [][/\ Len(all_questions') >= Len(all_questions)
          /\ SubSeq(all_questions', 1, Len(all_questions)) = all_questions]_vars

\* A finished run in which every operation contributed two items or more.
C3_Witness ==
    /\ pc = "done"
    /\ \A op \in Labels : Len(batches[op]) >= 2

\* C4: the Remote Source contributes at most per_op records per operation,
\* at most 4 * per_op in all.
C4_Original ==
    (pc # "idle" /\ USE_OPENAI) =>
        /\ \A op \in Labels : Len(batches[op]) <= PerOp
        /\ Len(all_questions) <= 4 * PerOp

\* The canonical schema.
Canonical(item) ==
    /\ item.py = "dict"
    /\ DOMAIN item.d = {"Text", "Operation", "status", "Answer"}
    /\ item.d.status = "Available"
    /\ item.d.Operation \in Labels

\* C5: every record of the result, in either mode, has exactly the fields
\* Text, Operation, status, Answer, status Available and an Operation among
\* the four labels; in Local mode the label of the batch it belongs to.
C5_Original ==
    pc # "idle" =>
        /\ \A i \in Items : Canonical(all_questions[i])
        /\ ~USE_OPENAI =>
              \A op \in Labels : \A j \in 1..Len(batches[op]) :
                  batches[op][j].d.Operation = op

\* The value written by a digit string, last digit first.
RECURSIVE DecimalValue(_)
DecimalValue(ds) ==
    IF ds = <<>> THEN <<0>>
    ELSE MagAppend(DecimalValue(SubSeq(ds, 1, Len(ds) - 1)), ds[Len(ds)])

AllDigits(ds) == ds # <<>> /\ \A i \in 1..Len(ds) : IsDigit(ds[i])

\* s is a/b at slash position i: a an integer with an optional leading
\* minus, b an integer, whitespace around the slash.
FractionAt(s, i) ==
    LET a == rstrip(SubSeq(s, 1, i - 1))
        b == lstrip_chars(SubSeq(s, i + 1, Len(s)), Whitespace)
    IN  /\ s[i] = "/"
        /\ a # <<>>
        /\ AllDigits(IF Head(a) = "-" THEN Tail(a) ELSE a)
        /\ AllDigits(b)

QuotientAt(s, i) ==
    LET a == rstrip(SubSeq(s, 1, i - 1))
        b == lstrip_chars(SubSeq(s, i + 1, Len(s)), Whitespace)
        num == DecimalValue(IF Head(a) = "-" THEN Tail(a) ELSE a)
        den == DecimalValue(b)
    IN  IF MagIsZero(den) THEN PyNone
        ELSE PyFloat(Head(a) = "-" /\ ~MagIsZero(num), num, den)

\* C6: for a raw answer of the form a/b, sanitize_answer returns the
\* quotient of a by b when b is not zero and None when b is zero, and has
\* no other outcome.
C6_Original ==
    (a_pc = "done" /\ a_in # PyNone) =>
        \A i \in 1..Len(a_in.s) :
            FractionAt(a_in.s, i) => a_out = QuotientAt(a_in.s, i)

\* The operator at position i of the output has exactly one space on the
\* given side.
OneSpaceLeft(i) ==
    /\ i > 1
    /\ s_out[i - 1] = " "
    /\ i > 2 => ~IsSpace(s_out[i - 2])

OneSpaceRight(i) ==
    /\ i < Len(s_out)
    /\ s_out[i + 1] = " "
    /\ i + 2 <= Len(s_out) => ~IsSpace(s_out[i + 2])

\* The raw text s has an operator glyph next to an operand.
AdjacentOperand(s) ==
    \E i \in 1..Len(s) :
        /\ s[i] \in OpGlyphs
        /\ \/ i > 1 /\ IsDigit(s[i - 1])
           \/ i < Len(s) /\ IsDigit(s[i + 1])

\* C7 as stated: for a raw text with an operator next to an operand, every
\* operator glyph of the output of sanitize_text has exactly one space on
\* its left and one on its right, also at the start and at the end of the
\* text.
C7_Original ==
    (t_pc = "done" /\ s_in # PyNone /\ AdjacentOperand(s_in.s)) =>
        \A i \in 1..Len(s_out) :
            s_out[i] \in OpGlyphs => OneSpaceLeft(i) /\ OneSpaceRight(i)

\* C7 amended: every operator glyph of the output of sanitize_text has
\* exactly one space on each side where the text goes on; an operator that
\* is the first (last) character of the output has nothing on its left
\* (right).
C7_Amended ==
    t_pc = "done" =>
        \A i \in 1..Len(s_out) :
            s_out[i] \in OpGlyphs =>
                /\ i = 1 \/ OneSpaceLeft(i)
                /\ i = Len(s_out) \/ OneSpaceRight(i)

\* A raw text without spaces whose output starts with an operator and has
\* another operator inside.
C7_Witness ==
    /\ t_pc = "done"
    /\ s_in # PyNone
    /\ \A i \in 1..Len(s_in.s) : ~IsSpace(s_in.s[i])
    /\ Len(s_out) > 3
    /\ s_out[1] \in OpGlyphs
    /\ \E i \in 2..(Len(s_out) - 1) : s_out[i] \in OpGlyphs

\* C8: the output of sanitize_text has no two consecutive whitespace
\* characters and no whitespace at its ends, for every raw text and for
\* None.
C8_NoWhitespaceRuns ==
    t_pc = "done" =>
        /\ \A i \in 1..(Len(s_out) - 1) : ~(IsSpace(s_out[i]) /\ IsSpace(s_out[i + 1]))
        /\ s_out # <<>> => ~IsSpace(s_out[1]) /\ ~IsSpace(s_out[Len(s_out)])

\* A raw text with a run of two whitespace characters between two others,
\* sanitized.
C8_Witness ==
    /\ t_pc = "done"
    /\ s_in # PyNone
    /\ \E i \in 2..(Len(s_in.s) - 2) :
          /\ IsSpace(s_in.s[i]) /\ IsSpace(s_in.s[i + 1])
          /\ ~IsSpace(s_in.s[i - 1]) /\ ~IsSpace(s_in.s[i + 2])
    /\ \E i \in 1..Len(s_out) : s_out[i] = " "

\* C9: in Local mode no iteration aborts the batch: the generator of each
\* operation is called per_op times, every processed call is an emitted
\* record or a skipped item, and at the return records + skipped = 4 * per_op.
C9_LocalBatchComplete ==
    (pc # "idle" /\ ~USE_OPENAI) =>
        /\ pc # "raised"
        /\ \A op \in Labels : calls[op] <= PerOp
        /\ pc \in {"loop", "done"} =>
              Len(all_questions) + skipped = SumCalls(Labels)
        /\ pc = "done" =>
              /\ \A op \in Labels : calls[op] = PerOp
              /\ Len(all_questions) + skipped = 4 * PerOp

\* A finished Local run whose last call raised, with records emitted and
\* items skipped before it.
C9_Witness ==
    /\ ~USE_OPENAI
    /\ pc = "done"
    /\ content.py = "raise"
    /\ skipped >= 2
    /\ Len(all_questions) >= 2

\* Number of consecutive c at the end of t.
RECURSIVE TrailingRun(_, _)
TrailingRun(t, c) ==
    IF t # <<>> /\ t[Len(t)] = c
    THEN 1 + TrailingRun(SubSeq(t, 1, Len(t) - 1), c)
    ELSE 0

\* The output of sanitize_text when line 78 removes the last k characters
\* of the text it receives, trailing whitespace aside.
OutputWithout(k) ==
    LET t == rstrip(text_markup(s_in.s))
    IN  text_collapse(text_operators(strip(SubSeq(t, 1, Len(t) - k))))

EqualsRun == TrailingRun(rstrip(text_markup(s_in.s)), "=")

\* C10 as stated: of k >= 1 trailing '=' characters sanitize_text removes
\* exactly one and keeps k - 1; without a trailing '=' the step changes
\* nothing.
C10_Original ==
    (t_pc = "done" /\ s_in # PyNone) =>
        s_out = OutputWithout(IF EqualsRun >= 1 THEN 1 ELSE 0)

\* C10 amended: of k >= 1 trailing '=' characters sanitize_text removes all
\* k; without a trailing '=' the step changes nothing.
C10_Amended ==
    (t_pc = "done" /\ s_in # PyNone) => s_out = OutputWithout(EqualsRun)

\* A text ending in two or more '=' after other characters, sanitized.
C10_Witness ==
    /\ t_pc = "done"
    /\ s_in # PyNone
    /\ EqualsRun >= 2
    /\ s_out # <<>>

====
